---- MODULE Spec2Model ----
(***************************************************************************)
(* Console-output helpers of puprelease (src/puprelease/util.py):          *)
(* linearize, rewrap (linearize + textwrap.fill with its default options), *)
(* echo, print_header and KeyValueTable.print_row.                         *)
(*                                                                         *)
(* A string is a sequence of one-character strings.  The characters of the *)
(* model are a letter, the hyphen and three whitespace characters; the     *)
(* separator of the table adds the colon.                                  *)
(***************************************************************************)
EXTENDS Integers, Sequences, FiniteSets, TLC

\* ---------------------------------------------------------------- bounds
\* Longest input text of linearize.
MaxLen == 5
\* Longest input text of rewrap.
MaxWrapLen == 7
\* Largest wrap width of rewrap.
MaxWidth == 5
\* Longest key and longest value given to print_row when it is called once.
MaxKeyLen == 2
MaxValueLen == 4
\* Largest key_column_width and total_width of a table.
MaxKeyColumnWidth == 3
MaxTotalWidth == 5
\* Most calls of one printing session.
MaxCalls == 2

\* MAX_LINEWIDTH of util.py.
MAX_LINEWIDTH == 75

\* ------------------------------------------------------------ characters
SP == " "
NL == "\n"
TAB == "\t"
HY == "-"

\* Characters matched by \s of re and stripped by str.strip().
Whitespace == {SP, NL, TAB}
\* textwrap._whitespace (the ones of the model's alphabet).
TwWhitespace == {SP, NL, TAB}
Letters == {"a", "k"}
\* [\w!"'&.,?] of textwrap.word_punct, over the model's alphabet.
WordPunct == Letters
Alphabet == {"a", HY, SP, NL, TAB}

RECURSIVE StringsOfLen(_, _)
StringsOfLen(A, n) ==
    IF n = 0 THEN {<<>>}
    ELSE {<<c>> \o s : c \in A, s \in StringsOfLen(A, n - 1)}

Strings(A, n) == UNION {StringsOfLen(A, k) : k \in 0..n}

\* ------------------------------------------------ str primitives of Python
RECURSIVE Repeat(_, _)
Repeat(c, n) == IF n <= 0 THEN <<>> ELSE <<c>> \o Repeat(c, n - 1)

\* s[i:j] with 0-based, already clamped indices: characters i+1 .. j.
Slice(s, i, j) == IF j <= i THEN <<>> ELSE SubSeq(s, i + 1, j)

RECURSIVE LStrip(_)
LStrip(s) ==
    IF s # <<>> /\ Head(s) \in Whitespace THEN LStrip(Tail(s)) ELSE s

RECURSIVE RStrip(_)
RStrip(s) ==
    IF s # <<>> /\ s[Len(s)] \in Whitespace
    THEN RStrip(SubSeq(s, 1, Len(s) - 1))
    ELSE s

\* str.strip()
Strip(s) == RStrip(LStrip(s))

\* str.ljust(width): pad with spaces on the right, never truncate.
LJust(s, width) == s \o Repeat(SP, width - Len(s))

\* str.replace(old, new) for a one-character old.
RECURSIVE Replace(_, _, _)
Replace(s, old, new) ==
    IF s = <<>> THEN <<>>
    ELSE (IF Head(s) = old THEN new ELSE <<Head(s)>>) \o Replace(Tail(s), old, new)

\* new.join(parts)
RECURSIVE Join(_, _)
Join(parts, sep) ==
    IF parts = <<>> THEN <<>>
    ELSE IF Len(parts) = 1 THEN parts[1]
    ELSE parts[1] \o sep \o Join(Tail(parts), sep)

\* ---------------------------------------------------------------- linearize
\* Mutant: the pattern \s{1,2} in place of \s+.
RECURSIVE SubSpacesPairs(_)
SubSpacesPairs(s) ==
    IF s = <<>> THEN <<>>
    ELSE IF Head(s) \in Whitespace
         THEN <<SP>> \o SubSpacesPairs(IF Tail(s) # <<>> /\ Head(Tail(s)) \in Whitespace
                                       THEN Tail(Tail(s)) ELSE Tail(s))
         ELSE <<Head(s)>> \o SubSpacesPairs(Tail(s))

\* re.sub(r"\s+", " ", s): every maximal run of whitespace becomes one space.
RECURSIVE SubSpaces(_)
SubSpaces(s) ==
    IF s = <<>> THEN <<>>
    ELSE IF Head(s) \in Whitespace
         THEN <<SP>> \o SubSpaces(LStrip(Tail(s)))
         ELSE <<Head(s)>> \o SubSpaces(Tail(s))

\* Mutant: the result is not stripped.
LinearizeNoStrip(multiline) == SubSpaces(multiline)

linearize(multiline) == Strip(SubSpaces(multiline))

\* ------------------------------------------- textwrap.fill, default options
\* The TextWrapper options rewrap leaves at their defaults (it passes width only).
break_long_words == TRUE
break_on_hyphens == TRUE
drop_whitespace == TRUE

\* The character at index i (1-based), or "" outside the string: "" is in no class.
At(t, i) == IF i \in 1..Len(t) THEN t[i] ELSE ""

\* str.expandtabs(8): a tab becomes the spaces up to the next multiple of 8 columns.
RECURSIVE ExpandTabs(_, _)
ExpandTabs(s, col) ==
    IF s = <<>> THEN <<>>
    ELSE IF Head(s) = TAB
         THEN Repeat(SP, 8 - (col % 8)) \o ExpandTabs(Tail(s), col + 8 - (col % 8))
         ELSE IF Head(s) = NL
              THEN <<NL>> \o ExpandTabs(Tail(s), 0)
              ELSE <<Head(s)>> \o ExpandTabs(Tail(s), col + 1)

\* TextWrapper._munge_whitespace: expand tabs, then every whitespace becomes a space.
MungeWhitespace(text) ==
    LET t == ExpandTabs(text, 0)
    IN [i \in 1..Len(t) |-> IF t[i] \in TwWhitespace THEN SP ELSE t[i]]

\* Number of consecutive characters of class C starting at index i.
RECURSIVE RunLen(_, _, _)
RunLen(t, i, C) == IF At(t, i) \in C THEN 1 + RunLen(t, i + 1, C) ELSE 0

\* -{2,}(?=\w) at index p: a run of at least two hyphens, then a word character.
EmDashAt(t, p) ==
    LET h == RunLen(t, p, {HY})
    IN h >= 2 /\ At(t, p + h) \in Letters

\* -(?:(?<=lt{2}-)|(?<=lt-lt-))(?=lt-?lt) with the hyphen at index p.
HyphenBreak(t, p) ==
    /\ At(t, p) = HY
    /\ \/ At(t, p - 2) \in Letters /\ At(t, p - 1) \in Letters
       \/ At(t, p - 3) \in Letters /\ At(t, p - 2) = HY /\ At(t, p - 1) \in Letters
    /\ At(t, p + 1) \in Letters
    /\ \/ At(t, p + 2) = HY /\ At(t, p + 3) \in Letters
       \/ At(t, p + 2) \in Letters

\* (?=ws|\Z) at index p.
EndOfWord(t, p) == p = Len(t) + 1 \/ At(t, p) \in TwWhitespace

\* (?<=wp)(?=-{2,}\w) at index p.
EmDashAhead(t, p) == At(t, p - 1) \in WordPunct /\ EmDashAt(t, p)

\* nws+? followed by one of the three word endings: the lazy quantifier takes
\* the first index p > i at which an ending matches.  The index after the match.
RECURSIVE WordMatchEnd(_, _)
WordMatchEnd(t, p) ==
    IF HyphenBreak(t, p) THEN p + 1
    ELSE IF EndOfWord(t, p) \/ EmDashAhead(t, p) THEN p
    ELSE WordMatchEnd(t, p + 1)

\* One match of wordsep_re at index i <= Len(t): the index after the match.
\* Every index starts a match, so re.split leaves no text between matches.
MatchEnd(t, i) ==
    IF t[i] \in TwWhitespace THEN i + RunLen(t, i, TwWhitespace)
    ELSE IF At(t, i - 1) \in WordPunct /\ EmDashAt(t, i) THEN i + RunLen(t, i, {HY})
    ELSE WordMatchEnd(t, i + 1)

\* (\s+) of wordsep_simple_re: whitespace runs and the text between them.
SimpleMatchEnd(t, i) ==
    IF t[i] \in TwWhitespace THEN i + RunLen(t, i, TwWhitespace)
    ELSE i + RunLen(t, i, (Alphabet \cup Letters) \ TwWhitespace)

RECURSIVE SplitFrom(_, _)
SplitFrom(t, i) ==
    IF i > Len(t) THEN <<>>
    ELSE LET e == IF break_on_hyphens THEN MatchEnd(t, i) ELSE SimpleMatchEnd(t, i)
         IN <<SubSeq(t, i, e - 1)>> \o SplitFrom(t, e)

\* TextWrapper._split: the chunks of the text, empty ones dropped.
Split(text) == SelectSeq(SplitFrom(text, 1), LAMBDA c : c # <<>>)

\* chunk.strip() == ''
IsBlank(chunk) == Strip(chunk) = <<>>

\* Mutant: the line is filled one character beyond the width.
RECURSIVE FitsOneMore(_, _, _)
FitsOneMore(chunks, cur_len, w) ==
    IF chunks # <<>> /\ cur_len + Len(Head(chunks)) <= w + 1
    THEN 1 + FitsOneMore(Tail(chunks), cur_len + Len(Head(chunks)), w)
    ELSE 0

\* The inner while loop of _wrap_chunks: the number of leading chunks that fit.
RECURSIVE Fits(_, _, _)
Fits(chunks, cur_len, w) ==
    IF chunks # <<>> /\ cur_len + Len(Head(chunks)) <= w
    THEN 1 + Fits(Tail(chunks), cur_len + Len(Head(chunks)), w)
    ELSE 0

RECURSIVE SumLen(_)
SumLen(parts) == IF parts = <<>> THEN 0 ELSE Len(Head(parts)) + SumLen(Tail(parts))

\* chunk.rfind('-', 0, stop): the last 0-based index below stop holding a hyphen, or -1.
RECURSIVE RFindHyphen(_, _)
RFindHyphen(chunk, stop) ==
    IF stop <= 0 THEN -1
    ELSE IF At(chunk, stop) = HY THEN stop - 1
    ELSE RFindHyphen(chunk, stop - 1)

\* TextWrapper._handle_long_word: how many characters of the chunk go on this
\* line (0 when words are not broken and the line already holds text; the whole
\* chunk when words are not broken and the line is empty).
LongWordEnd(chunk, cur_line, cur_len, w) ==
    LET space_left == IF w < 1 THEN 1 ELSE w - cur_len
        stop == IF space_left > Len(chunk) THEN Len(chunk) ELSE space_left
        hyphen == RFindHyphen(chunk, stop)
    IN IF break_long_words
       THEN IF /\ break_on_hyphens
               /\ Len(chunk) > space_left
               /\ hyphen > 0
               /\ \E i \in 1..hyphen : chunk[i] # HY
            THEN hyphen + 1
            ELSE stop
       ELSE IF cur_line = <<>> THEN Len(chunk) ELSE 0

\* Mutant: a chunk exactly as long as the width is broken like a longer one.
TooLongOrFull(chunk, w) == Len(chunk) >= w

\* len(chunks[-1]) > width: the next chunk fits on no line at all.
TooLong(chunk, w) == Len(chunk) > w

\* The outer while loop of TextWrapper._wrap_chunks (max_lines is None, both
\* indents are empty); chunks holds the chunks still to place, first one first.
RECURSIVE WrapChunks(_, _, _)
WrapChunks(chunks, lines, w) ==
    IF chunks = <<>> THEN lines
    ELSE
      LET c0 == IF drop_whitespace /\ IsBlank(Head(chunks)) /\ lines # <<>>
                THEN Tail(chunks) ELSE chunks
          n == Fits(c0, 0, w)
          line1 == SubSeq(c0, 1, n)
          c1 == SubSeq(c0, n + 1, Len(c0))
          long == c1 # <<>> /\ TooLong(Head(c1), w)
          end == IF long THEN LongWordEnd(Head(c1), line1, SumLen(line1), w) ELSE 0
          \* break_long_words: the piece is appended (even an empty one) and the
          \* rest of the chunk stays; otherwise the whole chunk is popped, or nothing.
          line2 == IF long /\ (break_long_words \/ line1 = <<>>)
                   THEN Append(line1, Slice(Head(c1), 0, end)) ELSE line1
          c2 == IF long /\ break_long_words
                THEN <<Slice(Head(c1), end, Len(Head(c1)))>> \o Tail(c1)
                ELSE IF long /\ line1 = <<>> THEN Tail(c1) ELSE c1
          line3 == IF drop_whitespace /\ line2 # <<>> /\ IsBlank(line2[Len(line2)])
                   THEN SubSeq(line2, 1, Len(line2) - 1) ELSE line2
      IN WrapChunks(c2, IF line3 # <<>> THEN Append(lines, Join(line3, <<>>)) ELSE lines, w)

\* TextWrapper.wrap: the lines of the wrapped text.
Wrap(text, w) == WrapChunks(Split(MungeWhitespace(text)), <<>>, w)

\* Mutant: the lines are joined without the newline.
FillNoNewline(text, w) == Join(Wrap(text, w), <<>>)

\* textwrap.fill(text, width): "\n".join(wrap(text)).
fill(text, w) == Join(Wrap(text, w), <<NL>>)

\* ------------------------------------------------------------------- rewrap
\* Mutant: only a negative width is rejected.
RaisesBelowZero(w) == w < 0

\* textwrap raises ValueError("invalid width") for a width <= 0, for every text.
RewrapRaises(w) == w <= 0

rewrap(text, w) == fill(linearize(text), w)

\* ------------------------------------------------ reading a string back
\* The lines of a text: the pieces between its newlines.
RECURSIVE SplitOn(_, _, _)
SplitOn(s, sep, cur) ==
    IF s = <<>> THEN <<cur>>
    ELSE IF Head(s) = sep THEN <<cur>> \o SplitOn(Tail(s), sep, <<>>)
    ELSE SplitOn(Tail(s), sep, Append(cur, Head(s)))

LinesOf(s) == SplitOn(s, NL, <<>>)

\* The words of a text: its maximal runs of non-space characters.
WordsOf(s) == SelectSeq(SplitOn(s, SP, <<>>), LAMBDA x : x # <<>>)

Range(f) == {f[i] : i \in DOMAIN f}

HasChar(s, C) == \E i \in 1..Len(s) : s[i] \in C

\* The characters of a text that are no whitespace, in order.
NonSpace(s) == SelectSeq(s, LAMBDA c : c \notin Whitespace)

\* ------------------------------------------------------ echo and the table
\* Mutant: every line of the message is written by a click.echo of its own.
EchoPerLine(message, newline, raw, max_linewidth) ==
    LET text == IF raw THEN message ELSE rewrap(message, max_linewidth)
        lines == SplitOn(text, NL, <<>>)
    IN [i \in 1..Len(lines) |-> lines[i] \o (IF newline THEN <<NL>> ELSE <<>>)]

\* echo(message, newline, raw, max_linewidth): the writes it makes, one click.echo
\* of the message, rewrapped unless raw, with a newline after it when newline.
echo(message, newline, raw, max_linewidth) ==
    << (IF raw THEN message ELSE rewrap(message, max_linewidth))
       \o (IF newline THEN <<NL>> ELSE <<>>) >>

\* print_header(header): echo(), echo(header), echo("-" * len(header)).
print_header(header) ==
    echo(<<>>, TRUE, FALSE, MAX_LINEWIDTH)
    \o echo(header, TRUE, FALSE, MAX_LINEWIDTH)
    \o echo(Repeat(HY, Len(header)), TRUE, FALSE, MAX_LINEWIDTH)

\* Mutant: <= in place of <.
KeyCellTooLongOrFull(kcw, key_cell) == kcw <= Len(key_cell)

\* self.key_column_width < len(key_cell): print_row warns.
KeyCellTooLong(kcw, key_cell) == kcw < Len(key_cell)

\* Mutant: replace(..., 1), only the first newline gets the indent.
RECURSIVE IndentFirstOnly(_, _)
IndentFirstOnly(wrapped, kcw) ==
    IF wrapped = <<>> THEN <<>>
    ELSE IF Head(wrapped) = NL THEN <<NL>> \o Repeat(SP, kcw) \o Tail(wrapped)
    ELSE <<Head(wrapped)>> \o IndentFirstOnly(Tail(wrapped), kcw)

\* wrapped.replace("\n", "\n" + " " * key_column_width)
IndentContinuation(wrapped, kcw) == Replace(wrapped, NL, <<NL>> \o Repeat(SP, kcw))

\* The value cell of print_row when rewrap returns: value itself without a
\* total_width, the rewrapped and indented value with one.
ValueCell(kcw, tw, value) ==
    IF tw = <<>> THEN value
    ELSE IndentContinuation(rewrap(value, tw[1] - kcw), kcw)

\* print_row ends in the ValueError of rewrap: a total_width is set and the
\* value column it leaves is not positive.
PrintRowRaises(kcw, tw) == tw # <<>> /\ RewrapRaises(tw[1] - kcw)

VARIABLES
    multiline,          \* the text given to linearize / rewrap
    width,              \* the width given to rewrap
    out,                \* the string the last function call returned
    pc,                 \* which calls have been made
    key_column_width,   \* KeyValueTable.key_column_width
    total_width,        \* KeyValueTable.total_width: <<>> is None, <<n>> is n
    separator,          \* KeyValueTable.separator
    stdout,             \* the writes of click.echo, in order, each with its newline
    warnings,           \* the calls of warn, in order: the number in each message
    raised,             \* "" or the exception that ended the program
    calls               \* history: the calls made so far, with what each one found and did

table == <<key_column_width, total_width, separator>>
vars == <<multiline, width, out, pc, key_column_width, total_width, separator,
          stdout, warnings, raised, calls>>

\* ----------------------------------------------- linearize and rewrap alone
NoTable ==
    /\ key_column_width = 0
    /\ total_width = <<>>
    /\ separator = <<":", SP>>
    /\ stdout = <<>>
    /\ warnings = <<>>
    /\ raised = ""
    /\ calls = <<>>

InitLin ==
    /\ multiline \in Strings(Alphabet, MaxLen)
    /\ width = 1
    /\ pc = "start"
    /\ out = <<>>
    /\ NoTable

\* The inputs of rewrap: texts of letters, hyphens and one kind of whitespace.
InitWrap ==
    /\ \E ws \in Whitespace : multiline \in Strings({"a", HY, ws}, MaxWrapLen)
    /\ width \in 1..MaxWidth
    /\ pc = "start"
    /\ out = <<>>
    /\ NoTable

\* out = linearize(multiline)
Linearize ==
    /\ pc = "start"
    /\ out' = linearize(multiline)
    /\ pc' = "linearized"
    /\ UNCHANGED <<multiline, width, table, stdout, warnings, raised, calls>>

\* out = rewrap(multiline, width)
Rewrap ==
    /\ pc = "start"
    /\ ~RewrapRaises(width)
    /\ out' = rewrap(multiline, width)
    /\ pc' = "rewrapped"
    /\ UNCHANGED <<multiline, width, table, stdout, warnings, raised, calls>>

\* out = linearize(out): linearize applied to the result of the call before.
Relinearize ==
    /\ pc \in {"linearized", "rewrapped"}
    /\ out' = linearize(out)
    /\ pc' = IF pc = "linearized" THEN "relinearized" ELSE "unwrapped"
    /\ UNCHANGED <<multiline, width, table, stdout, warnings, raised, calls>>

NextLin == Linearize \/ Relinearize

NextWrap == Rewrap \/ Relinearize

SpecLin == InitLin /\ [][NextLin]_vars

SpecWrap == InitWrap /\ [][NextWrap]_vars

\* ---------------------------------------------------- KeyValueTable.print_row
\* One call of print_row(key, value): the warning, then the ValueError of rewrap
\* or the one raw echo of the row.  No field of the table is assigned.
PrintRow(key, value) ==
    LET key_cell == key \o separator
        warns == KeyCellTooLong(key_column_width, key_cell)
        raises == PrintRowRaises(key_column_width, total_width)
        writes == IF raises THEN <<>>
                  ELSE echo(LJust(key_cell, key_column_width)
                            \o ValueCell(key_column_width, total_width, value),
                            TRUE, TRUE, MAX_LINEWIDTH)
    IN /\ raised = ""
       /\ warnings' = IF warns THEN Append(warnings, Len(key_cell)) ELSE warnings
       /\ raised' = IF raises THEN "ValueError" ELSE ""
       /\ stdout' = stdout \o writes
       /\ calls' = Append(calls, [op |-> "print_row", key |-> key, value |-> value,
                                  table |-> table, at |-> Len(stdout),
                                  n |-> Len(writes), exc |-> raised'])
       /\ UNCHANGED <<table, multiline, width, out>>

\* One call of print_header(header): three echoes.
PrintHeader(header) ==
    LET writes == print_header(header)
    IN /\ raised = ""
       /\ stdout' = stdout \o writes
       /\ calls' = Append(calls, [op |-> "print_header", key |-> <<>>, value |-> header,
                                  table |-> table, at |-> Len(stdout),
                                  n |-> Len(writes), exc |-> ""])
       /\ UNCHANGED <<table, multiline, width, out, warnings, raised>>

\* A table as its constructor leaves it; nothing printed yet.
InitTable ==
    /\ key_column_width \in 0..MaxKeyColumnWidth
    /\ total_width \in {<<>>} \cup {<<n>> : n \in 1..MaxTotalWidth}
    /\ separator = <<":", SP>>
    /\ stdout = <<>>
    /\ warnings = <<>>
    /\ raised = ""
    /\ calls = <<>>
    /\ multiline = <<>>
    /\ width = 1
    /\ out = <<>>

Keys == {Repeat("k", n) : n \in 0..MaxKeyLen}

\* A program that builds a table and prints one row.
InitRow == InitTable /\ pc = "start"

RowOnce ==
    /\ pc = "start"
    /\ pc' = "done"
    /\ \E key \in Keys, value \in Strings({"a", SP, NL}, MaxValueLen) : PrintRow(key, value)

NextRow == RowOnce

SpecRow == InitRow /\ [][NextRow]_vars

\* A printing session: headers and rows of one table, until an exception ends it.
SessionValues == {<<"a">>, <<"a", "a", SP, "a">>}
Headers == {<<"a", "a">>, <<"a", SP, SP, "a">>}

Init == InitTable /\ pc = "session"

PrintRowCall ==
    /\ Len(calls) < MaxCalls
    /\ \E key \in Keys, value \in SessionValues : PrintRow(key, value)
    /\ UNCHANGED pc

PrintHeaderCall ==
    /\ Len(calls) < MaxCalls
    /\ \E header \in Headers : PrintHeader(header)
    /\ UNCHANGED pc

Next == PrintRowCall \/ PrintHeaderCall

Spec == Init /\ [][Next]_vars

\* ------------------------------------------------------------------ claims
\* C1: linearize(s) holds no two consecutive whitespace characters, no newline
\* and no tab, neither starts nor ends with whitespace, and linearize("") is "".
C1_LinearizeNormalForm ==
    pc = "linearized" =>
        /\ \A i \in 1..(Len(out) - 1) : ~(out[i] \in Whitespace /\ out[i + 1] \in Whitespace)
        /\ ~HasChar(out, {NL, TAB})
        /\ (out # <<>> => out[1] \notin Whitespace /\ out[Len(out)] \notin Whitespace)
        /\ (multiline = <<>> => out = <<>>)

\* A text with leading and repeated mixed whitespace was linearized.
C1_Witness ==
    /\ pc = "linearized"
    /\ multiline = <<NL, "a", TAB, SP, "a">>
    /\ out = <<"a", SP, "a">>

\* C5: linearize(linearize(s)) = linearize(s).
C5_LinearizeIdempotent ==
    pc = "relinearized" => out = linearize(multiline)

\* linearize was applied twice to a text the first application changed.
C5_Witness ==
    /\ pc = "relinearized"
    /\ multiline = <<"a", SP, NL, TAB, "a">>
    /\ out = <<"a", SP, "a">>

\* C2: every line of rewrap(s, width) is at most width long, except a line that
\* is a single word longer than width.
C2_LineWidth ==
    pc = "rewrapped" =>
        \A line \in Range(LinesOf(out)) :
            \/ Len(line) <= width
            \/ ~HasChar(line, Whitespace) /\ Len(line) > width

\* A text was wrapped into several lines, one of them of several words and full.
C2_Witness ==
    /\ pc = "rewrapped"
    /\ Len(LinesOf(out)) >= 2
    /\ \E line \in Range(LinesOf(out)) : Len(line) = width /\ Len(WordsOf(line)) >= 2

\* C3 as the specification states it: every word of linearize(s) is a word of
\* one line of rewrap(s, width), and a word longer than width is a line of its own.
C3_NeverSplitsAWord ==
    pc = "rewrapped" =>
        \A word \in Range(WordsOf(linearize(multiline))) :
            /\ \E line \in Range(LinesOf(out)) : word \in Range(WordsOf(line))
            /\ (Len(word) > width => word \in Range(LinesOf(out)))

\* C3, amended: every word of linearize(s) that is at most width long and holds
\* no hyphen is a word of one line of rewrap(s, width); a word longer than width
\* is on no line whole, it is broken into pieces of at most width characters.
C3_ShortPlainWordsWhole ==
    pc = "rewrapped" =>
        \A word \in Range(WordsOf(linearize(multiline))) :
            /\ (Len(word) <= width /\ ~HasChar(word, {HY}))
                   => \E line \in Range(LinesOf(out)) : word \in Range(WordsOf(line))
            /\ Len(word) > width
                   => \A line \in Range(LinesOf(out)) :
                          Len(line) <= width /\ word \notin Range(WordsOf(line))

\* A text with a word that fits and a word longer than the width was wrapped,
\* and so was a text whose hyphenated word fits the width and is split all the same.
C3_Witness ==
    /\ pc = "rewrapped"
    /\ \/ /\ width = 2
          /\ multiline = <<"a", "a", NL, "a", "a", "a">>
          /\ out = <<"a", "a", NL, "a", "a", NL, "a">>
       \/ /\ multiline = <<"a", SP, "a", "a", HY, "a", "a">>
          /\ width = 5
          /\ out = <<"a", SP, "a", "a", HY, NL, "a", "a">>

\* C4 as the specification states it: linearize(rewrap(s, width)) = linearize(s).
C4_RoundTrip ==
    pc = "unwrapped" => out = linearize(multiline)

\* C4, amended: linearize(rewrap(s, width)) = linearize(s) when every word of
\* linearize(s) is at most width long and holds no hyphen; for every s, rewrap
\* keeps the non-whitespace characters of s, in order.
C4_RoundTripOfFittingWords ==
    /\ (pc = "unwrapped" /\ \A word \in Range(WordsOf(linearize(multiline))) :
                                Len(word) <= width /\ ~HasChar(word, {HY}))
           => out = linearize(multiline)
    /\ pc \in {"rewrapped", "unwrapped"} => NonSpace(out) = NonSpace(multiline)

\* A text of fitting words was wrapped into several lines and linearized again.
C4_Witness ==
    /\ pc = "unwrapped"
    /\ width = 2
    /\ multiline = <<SP, "a", "a", SP, SP, "a", SP>>
    /\ out = <<"a", "a", SP, "a">>

\* ------------------------------------------------- claims about print_row
\* The row a program of one print_row call wrote, without its final newline.
RowText == SubSeq(stdout[1], 1, Len(stdout[1]) - 1)

\* key + separator, space-padded on the right to key_column_width.
PaddedKeyCell(key) ==
    key \o separator \o Repeat(SP, key_column_width - Len(key \o separator))

\* The row text is the padded key cell, then rewrap(value, total_width -
\* key_column_width) with key_column_width spaces put before every line but the
\* first: every continuation line is these spaces and then a non-space character.
RowLaidOut(key, value, text) ==
    LET pad == PaddedKeyCell(key)
        lines == LinesOf(text)
        cells == [i \in 1..Len(lines) |->
                     IF i = 1 THEN SubSeq(lines[1], Len(pad) + 1, Len(lines[1]))
                     ELSE SubSeq(lines[i], key_column_width + 1, Len(lines[i]))]
    IN /\ Len(lines[1]) >= Len(pad)
       /\ SubSeq(lines[1], 1, Len(pad)) = pad
       /\ \A i \in 2..Len(lines) :
              /\ Len(lines[i]) > key_column_width
              /\ \A j \in 1..key_column_width : lines[i][j] = SP
              /\ lines[i][key_column_width + 1] # SP
       /\ Join(cells, <<NL>>) = rewrap(value, total_width[1] - key_column_width)

\* C6 as the specification states it: with a total_width, print_row makes one
\* write, laid out as above, and the value starts at the same column on every line.
C6_RowLayoutWheneverTotalWidth ==
    (pc = "done" /\ total_width # <<>>) =>
        /\ raised = ""
        /\ Len(stdout) = 1
        /\ stdout[1][Len(stdout[1])] = NL
        /\ RowLaidOut(calls[1].key, calls[1].value, RowText)
        /\ Len(LinesOf(RowText)) >= 2 => Len(PaddedKeyCell(calls[1].key)) = key_column_width

\* C6, amended: with a total_width greater than key_column_width, print_row
\* makes one write, laid out as above; the value starts at the same column on
\* every line when the key cell is not longer than key_column_width.
C6_RowLayout ==
    (pc = "done" /\ total_width # <<>> /\ total_width[1] > key_column_width) =>
        /\ raised = ""
        /\ Len(stdout) = 1
        /\ stdout[1][Len(stdout[1])] = NL
        /\ RowLaidOut(calls[1].key, calls[1].value, RowText)
        /\ Len(calls[1].key \o separator) <= key_column_width
               => Len(PaddedKeyCell(calls[1].key)) = key_column_width

\* A value was wrapped into three lines beside a padded key cell.
C6_Witness ==
    /\ pc = "done"
    /\ key_column_width = 3
    /\ total_width = <<5>>
    /\ calls[1].key = <<>>
    /\ calls[1].value = <<"a", SP, "a", "a">>
    /\ stdout = << <<":", SP, SP, "a", NL, SP, SP, SP, "a", "a", NL>> >>

\* The warning of print_row is emitted exactly when the key cell is too long.
WarnedIffTooLong ==
    IF Len(calls[1].key \o separator) > key_column_width
    THEN warnings = <<Len(calls[1].key \o separator)>>
    ELSE warnings = <<>>

\* The one row written starts with the whole key + separator, and the value
\* cell follows at once.
OverflowingRow ==
    LET key_cell == calls[1].key \o separator
        rest == SubSeq(stdout[1], Len(key_cell) + 1, Len(stdout[1]))
    IN /\ raised = ""
       /\ Len(stdout) = 1
       /\ Len(stdout[1]) > Len(key_cell)
       /\ SubSeq(stdout[1], 1, Len(key_cell)) = key_cell
       /\ IF total_width = <<>>
          THEN rest = calls[1].value \o <<NL>>
          ELSE /\ NonSpace(rest) = NonSpace(calls[1].value)
               /\ rest[1] # SP
               /\ rest[Len(rest)] = NL

\* C7 as the specification states it: a key cell longer than key_column_width
\* gets a warning and the row is written all the same; no warning otherwise.
C7_WarnsAndStillWrites ==
    pc = "done" =>
        /\ WarnedIffTooLong
        /\ Len(calls[1].key \o separator) > key_column_width => OverflowingRow

\* C7, amended: the same, except that with a total_width not greater than
\* key_column_width the warning is followed by the ValueError of rewrap and no
\* row is written.
C7_WarnsAndWritesUnlessNoValueColumn ==
    pc = "done" =>
        /\ WarnedIffTooLong
        /\ Len(calls[1].key \o separator) > key_column_width =>
               IF total_width # <<>> /\ total_width[1] <= key_column_width
               THEN raised = "ValueError" /\ stdout = <<>>
               ELSE OverflowingRow

\* A key cell of 4 characters overflowed a key column of 2 and the row was written.
C7_Witness ==
    /\ pc = "done"
    /\ key_column_width = 2
    /\ total_width = <<4>>
    /\ warnings = <<4>>
    /\ calls[1].value = <<"a", "a", "a">>
    /\ stdout = << <<"k", "k", ":", SP, "a", "a", NL, SP, SP, "a", NL>> >>

\* C8 as the specification states it: with total_width < key_column_width
\* print_row raises nothing and writes a row.
C8_NoCrashOnNegativeValueColumn ==
    (pc = "done" /\ total_width # <<>> /\ total_width[1] < key_column_width) =>
        raised = "" /\ Len(stdout) = 1

\* C8, amended: with total_width < key_column_width, and with total_width =
\* key_column_width, print_row raises ValueError and writes no row, for every
\* key and value.
C8_RaisesOnNoValueColumn ==
    (pc = "done" /\ total_width # <<>> /\ total_width[1] <= key_column_width) =>
        raised = "ValueError" /\ stdout = <<>> /\ WarnedIffTooLong

\* print_row was called on a table whose total_width is below its key column.
C8_Witness ==
    /\ pc = "done"
    /\ total_width = <<1>>
    /\ key_column_width = 3
    /\ calls[1].key = <<"k">>
    /\ calls[1].value = <<"a", SP, "a">>
    /\ raised = "ValueError"

\* ------------------------------------------------ claims about a session
RECURSIVE WritesUpTo(_)
WritesUpTo(k) == IF k = 0 THEN 0 ELSE WritesUpTo(k - 1) + calls[k].n

\* Every call found the table as it is now, the writes of the calls follow each
\* other on stdout in call order, and two print_row calls with the same key and
\* value wrote the same.
SessionFrame ==
    /\ \A i \in DOMAIN calls : calls[i].table = table
    /\ \A i \in DOMAIN calls : calls[i].at = WritesUpTo(i - 1)
    /\ Len(stdout) = WritesUpTo(Len(calls))
    /\ \A i, j \in DOMAIN calls :
           (/\ calls[i].op = "print_row" /\ calls[j].op = "print_row"
            /\ calls[i].key = calls[j].key /\ calls[i].value = calls[j].value)
           => /\ calls[i].n = calls[j].n
              /\ SubSeq(stdout, calls[i].at + 1, calls[i].at + calls[i].n)
                 = SubSeq(stdout, calls[j].at + 1, calls[j].at + calls[j].n)

\* C9 as the specification states it: no call changes the table, the text of
\* a row depends on the table, the key and the value only, and every print_row
\* call makes exactly one write.
C9_OneWritePerCall ==
    /\ SessionFrame
    /\ \A i \in DOMAIN calls : calls[i].op = "print_row" => calls[i].n = 1

\* C9, amended: the same, with exactly one write for every print_row call that
\* returns; a call that raises (total_width <= key_column_width) writes nothing
\* and is the last call.
C9_OneWritePerReturningCall ==
    /\ SessionFrame
    /\ \A i \in DOMAIN calls : calls[i].op = "print_row" =>
           IF calls[i].exc = ""
           THEN calls[i].n = 1
           ELSE calls[i].n = 0 /\ i = Len(calls) /\ raised = calls[i].exc

\* The same row of two lines was printed twice.
C9_Witness ==
    /\ Len(calls) = 2
    /\ calls[1].op = "print_row" /\ calls[2].op = "print_row"
    /\ calls[1].key = calls[2].key /\ calls[1].value = calls[2].value
    /\ Len(stdout) = 2
    /\ HasChar(SubSeq(stdout[1], 1, Len(stdout[1]) - 1), {NL})
    /\ stdout[1] = stdout[2]

\* C10: print_header(text) writes a blank line, the text, and one line of
\* len(text) dashes that is as long as the header line written above it.
C10_UnderlineAsLongAsHeader ==
    \A i \in DOMAIN calls : calls[i].op = "print_header" =>
        /\ calls[i].n = 3
        /\ stdout[calls[i].at + 1] = <<NL>>
        /\ LET head == stdout[calls[i].at + 2]
               rule == stdout[calls[i].at + 3]
           IN /\ Len(LinesOf(head)) = 2 /\ head[Len(head)] = NL
              /\ rule = Repeat(HY, Len(calls[i].value)) \o <<NL>>
              /\ Len(rule) = Len(head)
====
